---- MODULE Spec2Model ----
(***************************************************************************)
(* PENVCreator.py as a state machine.                                      *)
(*                                                                         *)
(* Text is a sequence of one-character strings, so that strip(), lower(),  *)
(* split() and re.split() are computed character by character.  The output *)
(* of a captured subprocess is the sequence of its lines (stdout after     *)
(* splitlines()).  A streamed child (subprocess.Popen with two pipes) is a *)
(* process of its own: it writes its remaining output into two pipes of    *)
(* capacity PipeCap, closes them, and terminates.                          *)
(***************************************************************************)
EXTENDS Integers, Sequences, FiniteSets, TLC

\* Capacity of an OS pipe, in items (lines of stdout, chunks of stderr).
PipeCap == 1
\* Longest output (stdout lines plus stderr chunks) a streamed child writes.
MaxChildOut == 2

VARIABLES
    pc,          \* position of the (single) thread of control
    exitStatus,  \* -1 while the process runs, else its exit status
    exc,         \* the unhandled exception that ended the process, or "none"
    netResult,   \* outcome of requests.get in check_internet
    os_name,     \* os.name
    fs,          \* the directories that exist, among the environment names
    venvValid,   \* whether <venv_name>/bin/python can be executed
    installer,   \* whether the downloaded installer file exists
    venv_name,   \* main's venv_name
    existed,     \* os.path.exists(venv_name) as main saw it (line 334)
    steps,       \* the startup steps that have returned, in order
    op,          \* the operation in progress (or the last one, at the menu)
    choice,      \* main's choice (line 349)
    calls,       \* the subprocesses started since the last menu choice
    out,         \* the log lines printed since the last menu choice
    running,     \* number of started subprocesses that have not terminated
    child,       \* the Popen handle `process` and its two pipes
    loc,         \* the locals of the operation in progress
    pline,       \* ParseSpec: the manifest line under test
    pres         \* ParseSpec: what the manifest comprehension made of it

vars == <<pc, exitStatus, exc, netResult, os_name, fs, venvValid, installer,
          venv_name, existed, steps, op, choice, calls, out, running, child,
          loc, pline, pres>>

(***************************************************************************)
(* Text                                                                    *)
(***************************************************************************)
IsSpace(c) == c \in {" ", "\n", "\t"}

\* str.lower(), on the letters the inputs use
LowerChar(c) ==
    CASE c = "A" -> "a"
      [] c = "B" -> "b"
      [] c = "N" -> "n"
      [] c = "Y" -> "y"
      [] OTHER -> c

Lower(s) == [i \in 1..Len(s) |-> LowerChar(s[i])]

RECURSIVE LStrip(_)
LStrip(s) == IF s # <<>> /\ IsSpace(Head(s)) THEN LStrip(Tail(s)) ELSE s

RECURSIVE RStrip(_)
RStrip(s) ==
    IF s # <<>> /\ IsSpace(s[Len(s)]) THEN RStrip(SubSeq(s, 1, Len(s) - 1)) ELSE s

\* str.strip()
Strip(s) == RStrip(LStrip(s))

\* the longest prefix of s with no character of stop
RECURSIVE TakeUntil(_, _)
TakeUntil(s, stop) ==
    IF s = <<>> \/ Head(s) \in stop THEN <<>>
    ELSE <<Head(s)>> \o TakeUntil(Tail(s), stop)

\* bool(line.strip()): the line has a whitespace-delimited token
HasToken(line) == Strip(line) # <<>>

\* line.split()[0]; IndexError when the line has no token
FirstToken(line) == TakeUntil(LStrip(line), {" ", "\n", "\t"})

\* line.startswith("#")
StartsWithHash(line) == line # <<>> /\ Head(line) = "#"

\* re.split(r"[=<>]", s)[0]
ReSplitFirst(s) == TakeUntil(s, {"=", "<", ">"})

\* s.split("==")[0]
RECURSIVE SplitEqEqFirst(_)
SplitEqEqFirst(s) ==
    IF s = <<>> THEN <<>>
    ELSE IF Len(s) >= 2 /\ s[1] = "=" /\ s[2] = "=" THEN <<>>
    ELSE <<Head(s)>> \o SplitEqEqFirst(Tail(s))

Range(s) == {s[i] : i \in 1..Len(s)}

\* lines[2:]
DropHeader(lines) == SubSeq(lines, 3, Len(lines))

(***************************************************************************)
(* The parsers of the package manager's output and of the manifest         *)
(***************************************************************************)
\* lines 75 and 143: the set comprehension over result.stdout.splitlines()[2:]
InstalledSet(lines) ==
    {Lower(FirstToken(l)) : l \in {x \in Range(DropHeader(lines)) : HasToken(x)}}

\* line 76 without .lower() on the requested name
IsInstalled_CaseSensitive(package_name, lines) == package_name \in InstalledSet(lines)

\* line 76
IsInstalled(package_name, lines) == Lower(package_name) \in InstalledSet(lines)

\* lines 124-125, for one line of the file: the entries it contributes
KeepsLine(line) == Strip(line) # <<>> /\ ~StartsWithHash(line)

ParseLine(line) == IF KeepsLine(line) THEN <<ReSplitFirst(Strip(line))>> ELSE <<>>

\* lines 123-126: the list comprehension over the file
RECURSIVE ParseRequirements(_)
ParseRequirements(file) ==
    IF file = <<>> THEN <<>>
    ELSE ParseLine(Head(file)) \o ParseRequirements(Tail(file))

\* lines 145 and 146
ToInstall(packages, installed) ==
    SelectSeq(packages, LAMBDA p : Lower(p) \notin installed)

AlreadyInstalled(packages, installed) ==
    SelectSeq(packages, LAMBDA p : Lower(p) \in installed)

\* line 217
FreezeNames(lines) == [i \in 1..Len(lines) |-> SplitEqEqFirst(lines[i])]

\* lines 264-267: line.split()[0] raises IndexError on a line with no token
OutdatedRaises(lines) ==
    Len(lines) > 2 /\ \E l \in Range(DropHeader(lines)) : ~HasToken(l)

\* lines 264-265 skipping one header line instead of two
OutdatedPackages_OneHeaderLine(lines) ==
    IF Len(lines) > 1
    THEN [i \in 1..(Len(lines) - 1) |-> FirstToken(lines[i + 1])]
    ELSE <<>>

OutdatedPackages(lines) ==
    IF Len(lines) > 2
    THEN [i \in 1..Len(DropHeader(lines)) |-> FirstToken(DropHeader(lines)[i])]
    ELSE <<>>

(***************************************************************************)
(* Commands, log lines, locals                                             *)
(***************************************************************************)
\* lines 17-22
get_python_executable(v) ==
    IF os_name = "nt" THEN [dir |-> v, sub |-> "Scripts", file |-> "python.exe"]
    ELSE [dir |-> v, sub |-> "bin", file |-> "python"]

\* the bare "python" of lines 28 and 57, and the installer of line 48
SystemPython == [dir |-> <<>>, sub |-> "", file |-> "python"]
PYTHON_INSTALLER == [dir |-> <<>>, sub |-> "", file |-> "python-3.10.6-amd64.exe"]

Cmd(exe, sub, arg) == [exe |-> exe, sub |-> sub, arg |-> arg]

Msg(m, a) == [m |-> m, a |-> a]

Log(m) == out' = Append(out, Msg(m, <<>>))

NoChild == [st |-> "none", prog |-> <<>>, so |-> <<>>, se |-> 0]

Loc0 == [package_name |-> <<>>, packages |-> <<>>, todo |-> <<>>,
         current_package |-> "unbound", installed |-> {}, lines |-> <<>>,
         answer |-> <<>>, requirements_file |-> <<>>,
         manifest |-> [exists |-> FALSE, file |-> <<>>],
         to_install |-> <<>>, pbar |-> 0, returncode |-> 0]

S_venv == <<"v", "e", "n", "v">>
S_env2 == <<"e">>
EnvNames == {S_venv, S_env2}

\* what the user may type at line 332
RawEnvNames == {<<>>, <<" ">>, <<"e">>, <<" ", "e", " ">>}

env == <<os_name, fs, venvValid, installer>>
hist == <<steps, calls, out>>
parse == <<pline, pres>>

\* an unhandled exception: the interpreter prints the traceback and exits 1
Raise(e) ==
    /\ pc' = "crashed"
    /\ exitStatus' = 1
    /\ exc' = e

(***************************************************************************)
(* Startup: lines 317-337                                                  *)
(***************************************************************************)
Init ==
    /\ pc = "start"
    /\ exitStatus = -1
    /\ exc = "none"
    /\ netResult = "unknown"
    /\ os_name \in {"nt", "posix"}
    /\ fs \in SUBSET EnvNames
    /\ venvValid = FALSE
    /\ installer = FALSE
    /\ venv_name = <<>>
    /\ existed = FALSE
    /\ steps = <<>>
    /\ op = "startup"
    /\ choice = <<>>
    /\ calls = <<>>
    /\ out = <<>>
    /\ running = 0
    /\ child = NoChild
    /\ loc = Loc0
    /\ pline = <<>>
    /\ pres = <<>>

\* check=True dropped: a non-zero exit status goes unnoticed
check_raises_Unchecked(rc) == FALSE

\* check=True of lines 28, 49 and 57: a non-zero exit status raises
check_raises(rc) == rc # 0

\* lines 308-314 and 321-325
check_internet ==
    /\ pc = "start"
    /\ \E r \in {"ok", "ConnectionError", "Timeout"} :
        /\ netResult' = r
        /\ CASE r = "ok" ->
                 /\ pc' = "check_python"
                 /\ steps' = Append(steps, "check_internet")
                 /\ UNCHANGED <<exitStatus, exc, out>>
             [] r = "ConnectionError" ->
                 /\ pc' = "exited"
                 /\ exitStatus' = 1
                 /\ steps' = Append(steps, "check_internet")
                 /\ out' = out \o <<Msg("ERROR: requires an internet connection", <<>>),
                                    Msg("Please check your connection", <<>>)>>
                 /\ UNCHANGED exc
             [] OTHER ->
                 \* requests.Timeout is not a requests.ConnectionError
                 /\ Raise("Timeout")
                 /\ UNCHANGED <<steps, out>>
    /\ UNCHANGED <<env, venv_name, existed, op, choice, calls, running, child,
                   loc, parse>>

\* line 28, up to the start of the child
check_python ==
    /\ pc = "check_python"
    /\ \E found \in BOOLEAN :
        IF found
        THEN /\ pc' = "check_python_wait"
             /\ running' = running + 1
             /\ calls' = Append(calls, Cmd(SystemPython, "--version", <<>>))
             /\ UNCHANGED out
        ELSE \* FileNotFoundError: return False; line 328
             /\ pc' = "download_python"
             /\ Log("Python is not installed. Downloading and installing...")
             /\ UNCHANGED <<running, calls>>
    /\ UNCHANGED <<exitStatus, exc, netResult, env, venv_name, existed, steps,
                   op, choice, child, loc, parse>>

\* lines 28-30: subprocess.run(check=True) returns or raises
check_python_wait ==
    /\ pc = "check_python_wait"
    /\ running' = running - 1
    /\ \E rc \in {0, 1} :
        IF ~check_raises(rc)
        THEN /\ pc' = "ask_venv"
             /\ Log("Python is already installed.")
             /\ steps' = Append(steps, "runtime")
             /\ UNCHANGED <<exitStatus, exc>>
        ELSE /\ Raise("CalledProcessError")
             /\ UNCHANGED <<out, steps>>
    /\ UNCHANGED <<netResult, env, venv_name, existed, op, choice, calls, child,
                   loc, parse>>

\* lines 35-42
download_python ==
    /\ pc = "download_python"
    /\ \E ok \in BOOLEAN :
        IF ok
        THEN /\ pc' = "install_python"
             /\ installer' = TRUE
             /\ out' = out \o <<Msg("Downloading", <<>>),
                                Msg("Python installer downloaded.", <<>>)>>
             /\ UNCHANGED <<exitStatus, exc>>
        ELSE /\ Raise("ConnectionError")
             /\ Log("Downloading")
             /\ UNCHANGED installer
    /\ UNCHANGED <<netResult, os_name, fs, venvValid, venv_name, existed, steps,
                   op, choice, calls, running, child, loc, parse>>

\* lines 47-49, up to the start of the installer
install_python ==
    /\ pc = "install_python"
    /\ Log("Installing Python...")
    /\ \E started \in BOOLEAN :
        IF started
        THEN /\ pc' = "install_python_wait"
             /\ running' = running + 1
             /\ calls' = Append(calls, Cmd(PYTHON_INSTALLER, "/quiet", <<>>))
             /\ UNCHANGED <<exitStatus, exc>>
        ELSE /\ Raise("OSError")
             /\ UNCHANGED <<running, calls>>
    /\ UNCHANGED <<netResult, env, venv_name, existed, steps, op, choice, child,
                   loc, parse>>

\* lines 48-51
install_python_wait ==
    /\ pc = "install_python_wait"
    /\ running' = running - 1
    /\ \E rc \in {0, 1} :
        IF ~check_raises(rc)
        THEN /\ pc' = "ask_venv"
             /\ installer' = FALSE
             /\ Log("Python installed successfully!")
             /\ steps' = Append(steps, "runtime")
             /\ UNCHANGED <<exitStatus, exc>>
        ELSE /\ Raise("CalledProcessError")
             /\ UNCHANGED <<installer, out, steps>>
    /\ UNCHANGED <<netResult, os_name, fs, venvValid, venv_name, existed, op,
                   choice, calls, child, loc, parse>>

\* line 337 dropped: main enters the loop without the initial check
AfterVenv_NoInitialCheck == "menu"

\* where main goes once the environment step has returned (line 337)
AfterVenv == "check_for_updates"

\* lines 332-335, up to the call of create_virtual_env
main_venv ==
    /\ pc = "ask_venv"
    /\ \E raw \in RawEnvNames :
        LET name == IF Strip(raw) = <<>> THEN S_venv ELSE Strip(raw) IN
        /\ venv_name' = name
        /\ existed' = (name \in fs)
        /\ IF name \in fs
           THEN /\ pc' = AfterVenv
                /\ steps' = Append(steps, "venv")
                \* an existing directory is not validated
                /\ venvValid' \in BOOLEAN
           ELSE /\ pc' = "create_virtual_env"
                /\ UNCHANGED <<steps, venvValid>>
    /\ UNCHANGED <<exitStatus, exc, netResult, os_name, fs, installer, op,
                   choice, calls, out, running, child, loc, parse>>

\* lines 56-57, up to the start of the child
create_virtual_env ==
    /\ pc = "create_virtual_env"
    /\ Log("Creating virtual environment")
    /\ \E found \in BOOLEAN :
        IF found
        THEN /\ pc' = "create_virtual_env_wait"
             /\ running' = running + 1
             /\ calls' = Append(calls, Cmd(SystemPython, "venv", venv_name))
             /\ UNCHANGED <<exitStatus, exc>>
        ELSE \* "python" is not on this process's PATH
             /\ Raise("FileNotFoundError")
             /\ UNCHANGED <<running, calls>>
    /\ UNCHANGED <<netResult, env, venv_name, existed, steps, op, choice, child,
                   loc, parse>>

\* lines 57-58: the tool creates the directory when it succeeds; when it
\* fails it may or may not have created it
create_virtual_env_wait ==
    /\ pc = "create_virtual_env_wait"
    /\ running' = running - 1
    /\ \E rc \in {0, 1}, made \in BOOLEAN :
        /\ rc = 0 => made
        /\ fs' = IF made THEN fs \cup {venv_name} ELSE fs
        /\ venvValid' = (rc = 0)
        /\ IF check_raises(rc)
           THEN /\ Raise("CalledProcessError")
                /\ UNCHANGED <<out, steps>>
           ELSE /\ pc' = AfterVenv
                /\ Log("Virtual environment created successfully.")
                /\ steps' = Append(steps, "venv")
                /\ UNCHANGED <<exitStatus, exc>>
    /\ UNCHANGED <<netResult, os_name, installer, venv_name, existed, op,
                   choice, calls, child, loc, parse>>

(***************************************************************************)
(* Subprocesses of the environment's interpreter                           *)
(***************************************************************************)
PipCmd(sub, arg) == Cmd(get_python_executable(venv_name), sub, arg)

\* subprocess.run / subprocess.Popen start the child, or raise
\* FileNotFoundError when the environment has no interpreter
RunStart(sub, arg, next) ==
    IF venvValid
    THEN /\ pc' = next
         /\ running' = running + 1
         /\ calls' = Append(calls, PipCmd(sub, arg))
         /\ UNCHANGED <<exitStatus, exc>>
    ELSE /\ Raise("FileNotFoundError")
         /\ UNCHANGED <<running, calls>>

ChildItems == {"C", "o", "e"}

\* what a streamed child writes: "C" a stdout line with the operation's
\* marker (Collecting <name>, Uninstalling <name>), "o" any other stdout
\* line, "e" a chunk of stderr
ChildProgs == UNION {[1..n -> ChildItems] : n \in 0..MaxChildOut}

PopenStart(sub, arg, next) ==
    /\ RunStart(sub, arg, next)
    /\ IF venvValid
       THEN \E p \in ChildProgs :
               child' = [st |-> "running", prog |-> p, so |-> <<>>, se |-> 0]
       ELSE UNCHANGED child

\* the child writes its next item, blocking while the pipe is full
ChildWrite ==
    /\ child.st = "running"
    /\ child.prog # <<>>
    /\ IF Head(child.prog) = "e"
       THEN /\ child.se < PipeCap
            /\ child' = [child EXCEPT !.prog = Tail(@), !.se = @ + 1]
       ELSE /\ Len(child.so) < PipeCap
            /\ child' = [child EXCEPT !.prog = Tail(@),
                                      !.so = Append(@, Head(child.prog))]
    /\ UNCHANGED <<pc, exitStatus, exc, netResult, env, venv_name, existed,
                   hist, op, choice, running, loc, parse>>

\* having written everything, the child closes its ends of the pipes
ChildClose ==
    /\ child.st = "running"
    /\ child.prog = <<>>
    /\ child' = [child EXCEPT !.st = "closed"]
    /\ UNCHANGED <<pc, exitStatus, exc, netResult, env, venv_name, existed,
                   hist, op, choice, running, loc, parse>>

\* and terminates
ChildExit ==
    /\ child.st = "closed"
    /\ child' = [child EXCEPT !.st = "exited"]
    /\ running' = running - 1
    /\ UNCHANGED <<pc, exitStatus, exc, netResult, env, venv_name, existed,
                   hist, op, choice, loc, parse>>

\* a blocking read of the child's stdout returns a line ...
StdoutLine == child.so # <<>>
\* ... or end of file, once the child has closed its end
StdoutEOF == child.so = <<>> /\ child.st \in {"closed", "exited"}
StderrChunk == child.se > 0
StderrEOF == child.se = 0 /\ child.st \in {"closed", "exited"}

\* lines 241 and 302 dropped: the loop goes on without process.wait()
WaitReturns_NoWait == TRUE

\* process.wait() returns once the child has terminated
WaitReturns == child.st = "exited"

TakeStdout == child' = [child EXCEPT !.so = Tail(@)]
TakeStderr == child' = [child EXCEPT !.se = @ - 1]

(***************************************************************************)
(* check_for_updates and update_packages: lines 247-305                    *)
(***************************************************************************)
Hdr == <<"P", " ", "V">>
Sep == <<"-", " ", "-">>
Row(name) == name \o <<" ", "1">>

\* outputs of `pip list --outdated`, after splitlines(): nothing, a header
\* alone, a header with rows, and rows under no header; the tool prints no
\* blank row (on one, line 266 would raise: OutdatedRaises)
OutdatedOutputs ==
    { <<>>, <<Hdr>>, <<Hdr, Sep>>,
      <<Hdr, Sep, Row(<<"b">>)>>,
      <<Hdr, Sep, Row(<<"c">>), Row(<<"a">>)>>,
      <<Row(<<"a">>), Row(<<"b">>), Row(<<"c">>)>> }

\* what the user may type at the y/n prompts (lines 275 and 360)
RawAnswers == {<<"y">>, <<"Y", " ">>, <<"n">>, <<>>}

\* check_for_updates returns to main: line 337 or line 377
ReturnFromUpdates ==
    /\ pc' = "menu"
    /\ steps' = IF op = "startup" THEN Append(steps, "check_for_updates") ELSE steps

\* lines 249-258, up to the start of the child
check_for_updates ==
    /\ pc = "check_for_updates"
    /\ Log("Checking for outdated packages...")
    /\ RunStart("list --outdated", <<>>, "check_for_updates_wait")
    /\ UNCHANGED <<netResult, env, venv_name, existed, steps, op, choice,
                   child, loc, parse>>

\* lines 253-273
check_for_updates_wait ==
    /\ pc = "check_for_updates_wait"
    /\ running' = running - 1
    /\ \E stdout \in OutdatedOutputs :
        IF OutdatedRaises(stdout)
        THEN /\ Raise("IndexError")
             /\ loc' = [loc EXCEPT !.lines = stdout]
             /\ UNCHANGED <<out, steps>>
        ELSE /\ loc' = [loc EXCEPT !.lines = stdout,
                                   !.packages = OutdatedPackages(stdout)]
             /\ UNCHANGED <<exitStatus, exc>>
             /\ IF OutdatedPackages(stdout) = <<>>
                THEN /\ Log("All packages are up to date.")
                     /\ ReturnFromUpdates
                ELSE /\ Log("Found outdated package(s).")
                     /\ pc' = "ask_update"
                     /\ UNCHANGED steps
    /\ UNCHANGED <<netResult, env, venv_name, existed, op, choice, calls,
                   child, parse>>

\* the prompt input() prints at line 275
UpdatePrompt == Msg("Do you want to update all outdated packages? (y/n): ", <<>>)

\* lines 275-277
ask_update ==
    /\ pc = "ask_update"
    /\ \E raw \in RawAnswers :
        /\ loc' = [loc EXCEPT !.answer = Lower(Strip(raw)), !.todo = loc.packages]
        /\ IF Lower(Strip(raw)) = <<"y">>
           THEN pc' = "update_packages" /\ UNCHANGED steps
           ELSE ReturnFromUpdates
    /\ out' = Append(out, UpdatePrompt)
    /\ UNCHANGED <<exitStatus, exc, netResult, env, venv_name, existed, op,
                   choice, calls, running, child, parse>>

\* lines 285-291: the next package's child is started, or (line 305) the
\* loop is over
update_packages ==
    /\ pc = "update_packages"
    /\ IF loc.todo = <<>>
       THEN /\ Log("All selected packages updated successfully.")
            /\ ReturnFromUpdates
            /\ UNCHANGED <<exitStatus, exc, calls, running, child>>
       ELSE /\ PopenStart("install --upgrade", Head(loc.todo), "update_stdout")
            /\ UNCHANGED <<out, steps>>
    /\ UNCHANGED <<netResult, env, venv_name, existed, op, choice, loc, parse>>

\* lines 294-298
update_stdout ==
    /\ pc = "update_stdout"
    /\ \/ /\ StdoutLine
          /\ TakeStdout
          /\ UNCHANGED pc
       \/ /\ StdoutEOF
          /\ pc' = "update_stderr"
          /\ UNCHANGED child
    /\ UNCHANGED <<exitStatus, exc, netResult, env, venv_name, existed, hist,
                   op, choice, running, loc, parse>>

\* lines 299-300
update_stderr ==
    /\ pc = "update_stderr"
    /\ \/ /\ StderrChunk
          /\ TakeStderr
          /\ UNCHANGED pc
       \/ /\ StderrEOF
          /\ pc' = "update_wait"
          /\ UNCHANGED child
    /\ UNCHANGED <<exitStatus, exc, netResult, env, venv_name, existed, hist,
                   op, choice, running, loc, parse>>

\* lines 302-303
update_wait ==
    /\ pc = "update_wait"
    /\ WaitReturns
    /\ pc' = "update_packages"
    /\ loc' = [loc EXCEPT !.todo = Tail(@), !.pbar = @ + 1]
    /\ UNCHANGED <<exitStatus, exc, netResult, env, venv_name, existed, hist,
                   op, choice, running, child, parse>>

(***************************************************************************)
(* The menu: lines 339-382                                                 *)
(***************************************************************************)
\* what the user may type at line 349
RawChoices ==
    { <<"1">>, <<"2">>, <<"3">>, <<"4">>, <<"5">>, <<"6">>, <<"7">>, <<"8">>,
      <<"9">>, <<"x">>, <<>>, <<" ", "8", " ">> }

\* what the user may type at lines 352 and 356
RawPackageNames == {<<>>, <<" ">>, <<"N", "p">>, <<"b">>, <<" ", "a">>}

\* what the user may type at line 364
RawPaths == {<<>>, <<"r">>, <<" ", "m", " ">>}

\* the chain without its final else: an unknown choice falls into a branch
MenuTarget_NoElse(c) ==
    CASE c = <<"1">> -> "install"
      [] c = <<"2">> -> "remove"
      [] c = <<"3">> -> "remove_all"
      [] c = <<"4">> -> "requirements"
      [] c = <<"6">> -> "freeze"
      [] c = <<"7">> -> "updates"
      [] c = <<"8">> -> "exit"
      [] OTHER -> "list"

\* the if/elif chain of lines 351-382: the operation a choice selects
MenuTarget(c) ==
    CASE c = <<"1">> -> "install"
      [] c = <<"2">> -> "remove"
      [] c = <<"3">> -> "remove_all"
      [] c = <<"4">> -> "requirements"
      [] c = <<"5">> -> "list"
      [] c = <<"6">> -> "freeze"
      [] c = <<"7">> -> "updates"
      [] c = <<"8">> -> "exit"
      [] OTHER -> "invalid"

\* the first position of each branch
BranchPc(target) ==
    CASE target = "install" -> "ask_install"
      [] target = "remove" -> "ask_remove"
      [] target = "remove_all" -> "ask_remove_all"
      [] target = "requirements" -> "ask_requirements"
      [] target = "list" -> "list_packages"
      [] target = "freeze" -> "generate_requirements"
      [] target = "updates" -> "check_for_updates"
      [] target = "exit" -> "exited"
      [] OTHER -> "menu"

\* lines 349-382: the choice is read and its branch is entered
main_menu ==
    /\ pc = "menu"
    /\ \E raw \in RawChoices :
        LET target == MenuTarget(Strip(raw)) IN
        /\ choice' = Strip(raw)
        /\ op' = target
        /\ pc' = BranchPc(target)
        /\ exitStatus' = IF target = "exit" THEN 0 ELSE exitStatus
        /\ out' = CASE target = "exit" -> <<Msg("Exiting... Goodbye!", <<>>)>>
                    [] target = "invalid" -> <<Msg("Invalid choice.", <<>>)>>
                    [] OTHER -> <<>>
    /\ calls' = <<>>
    /\ loc' = Loc0
    /\ child' = NoChild
    /\ UNCHANGED <<exc, netResult, env, venv_name, existed, steps, running, parse>>

(***************************************************************************)
(* install_package: lines 65-111                                           *)
(***************************************************************************)
\* outputs of `pip list`, after splitlines()
ListOutputs ==
    { <<>>, <<Hdr, Sep>>,
      <<Hdr, Sep, Row(<<"b">>)>>,
      <<Hdr, Sep, Row(<<"a">>), Row(<<"B">>), Row(<<"c">>)>>,
      <<Hdr, Sep, Row(<<"n", "p">>), <<" ">>>>,
      <<Row(<<"a">>), Row(<<"b">>)>> }

\* lines 352-354
ask_install ==
    /\ pc = "ask_install"
    /\ \E raw \in RawPackageNames :
        /\ loc' = [loc EXCEPT !.package_name = Strip(raw)]
        /\ pc' = IF Strip(raw) # <<>> THEN "install_package" ELSE "menu"
    /\ UNCHANGED <<exitStatus, exc, netResult, env, venv_name, existed, hist,
                   op, choice, running, child, parse>>

\* lines 81-83 and 67-73, up to the start of `pip list`
install_package ==
    /\ pc = "install_package"
    /\ RunStart("list", <<>>, "is_package_installed_wait")
    /\ UNCHANGED <<netResult, env, venv_name, existed, steps, out, op, choice,
                   child, loc, parse>>

\* lines 68-76 and 83-87
is_package_installed_wait ==
    /\ pc = "is_package_installed_wait"
    /\ running' = running - 1
    /\ \E stdout \in ListOutputs :
        /\ loc' = [loc EXCEPT !.lines = stdout, !.installed = InstalledSet(stdout)]
        /\ IF IsInstalled(loc.package_name, stdout)
           THEN /\ out' = Append(out, Msg("skipped, already installed", loc.package_name))
                /\ pc' = "menu"
           ELSE /\ out' = Append(out, Msg("Installing", loc.package_name))
                /\ pc' = "install_popen"
    /\ UNCHANGED <<exitStatus, exc, netResult, env, venv_name, existed, steps,
                   calls, op, choice, child, parse>>

\* lines 89-95
install_popen ==
    /\ pc = "install_popen"
    /\ PopenStart("install", loc.package_name, "install_stdout")
    /\ UNCHANGED <<netResult, env, venv_name, existed, steps, out, op, choice,
                   loc, parse>>

\* lines 97-104: only stdout is read
install_stdout ==
    /\ pc = "install_stdout"
    /\ \/ /\ StdoutLine
          /\ TakeStdout
          /\ loc' = IF Head(child.so) = "C"
                    THEN [loc EXCEPT !.current_package = "bound", !.pbar = @ + 1]
                    ELSE loc
          /\ UNCHANGED pc
       \/ /\ StdoutEOF
          /\ pc' = "install_wait"
          /\ UNCHANGED <<child, loc>>
    /\ UNCHANGED <<exitStatus, exc, netResult, env, venv_name, existed, hist,
                   op, choice, running, parse>>

\* lines 106-111: current_package is read whether or not line 102 ever ran
install_wait ==
    /\ pc = "install_wait"
    /\ WaitReturns
    /\ \E rc \in {0, 1} :
        /\ loc' = [loc EXCEPT !.returncode = rc]
        /\ IF loc.current_package = "unbound"
           THEN Raise("UnboundLocalError")
           ELSE pc' = "menu" /\ UNCHANGED <<exitStatus, exc>>
    /\ UNCHANGED <<netResult, env, venv_name, existed, hist, op, choice,
                   running, child, parse>>

(***************************************************************************)
(* remove_package: lines 182-207                                           *)
(***************************************************************************)
\* lines 356-358
ask_remove ==
    /\ pc = "ask_remove"
    /\ \E raw \in RawPackageNames :
        /\ loc' = [loc EXCEPT !.package_name = Strip(raw)]
        /\ pc' = IF Strip(raw) # <<>> THEN "remove_package" ELSE "menu"
    /\ UNCHANGED <<exitStatus, exc, netResult, env, venv_name, existed, hist,
                   op, choice, running, child, parse>>

\* lines 184-192
remove_package ==
    /\ pc = "remove_package"
    /\ out' = Append(out, Msg("Removing package", loc.package_name))
    /\ PopenStart("uninstall -y", loc.package_name, "remove_stdout")
    /\ UNCHANGED <<netResult, env, venv_name, existed, steps, op, choice, loc,
                   parse>>

\* lines 196-200
remove_stdout ==
    /\ pc = "remove_stdout"
    /\ \/ /\ StdoutLine
          /\ TakeStdout
          /\ UNCHANGED pc
       \/ /\ StdoutEOF
          /\ pc' = "remove_stderr"
          /\ UNCHANGED child
    /\ UNCHANGED <<exitStatus, exc, netResult, env, venv_name, existed, hist,
                   op, choice, running, loc, parse>>

\* lines 201-202
remove_stderr ==
    /\ pc = "remove_stderr"
    /\ \/ /\ StderrChunk
          /\ TakeStderr
          /\ UNCHANGED pc
       \/ /\ StderrEOF
          /\ pc' = "remove_wait"
          /\ UNCHANGED child
    /\ UNCHANGED <<exitStatus, exc, netResult, env, venv_name, existed, hist,
                   op, choice, running, loc, parse>>

\* lines 204-207: the exit status is not looked at
remove_wait ==
    /\ pc = "remove_wait"
    /\ WaitReturns
    /\ pc' = "menu"
    /\ loc' = [loc EXCEPT !.pbar = @ + 1]
    /\ out' = Append(out, Msg("removed successfully", loc.package_name))
    /\ UNCHANGED <<exitStatus, exc, netResult, env, venv_name, existed, steps,
                   calls, op, choice, running, child, parse>>

(***************************************************************************)
(* remove_all_packages: lines 210-244                                      *)
(***************************************************************************)
FreezeLine(name) == name \o <<"=", "=", "1">>

\* outputs of `pip freeze`, after splitlines()
FreezeOutputs ==
    { <<>>, <<FreezeLine(<<"a">>)>>, <<FreezeLine(<<"c">>), FreezeLine(<<"b">>)>> }

\* lines 360-362
ask_remove_all ==
    /\ pc = "ask_remove_all"
    /\ \E raw \in RawAnswers :
        /\ loc' = [loc EXCEPT !.answer = Lower(Strip(raw))]
        /\ pc' = IF Lower(Strip(raw)) = <<"y">> THEN "remove_all_packages" ELSE "menu"
    /\ UNCHANGED <<exitStatus, exc, netResult, env, venv_name, existed, hist,
                   op, choice, running, child, parse>>

\* lines 212-216, up to the start of `pip freeze`
remove_all_packages ==
    /\ pc = "remove_all_packages"
    /\ Log("Removing all installed packages...")
    /\ RunStart("freeze", <<>>, "remove_all_freeze_wait")
    /\ UNCHANGED <<netResult, env, venv_name, existed, steps, op, choice,
                   child, loc, parse>>

\* lines 216-221
remove_all_freeze_wait ==
    /\ pc = "remove_all_freeze_wait"
    /\ running' = running - 1
    /\ \E stdout \in FreezeOutputs :
        /\ loc' = [loc EXCEPT !.lines = stdout, !.packages = FreezeNames(stdout),
                              !.todo = FreezeNames(stdout)]
        /\ IF FreezeNames(stdout) = <<>>
           THEN Log("No packages to remove.") /\ pc' = "menu"
           ELSE pc' = "remove_all_loop" /\ UNCHANGED out
    /\ UNCHANGED <<exitStatus, exc, netResult, env, venv_name, existed, steps,
                   calls, op, choice, child, parse>>

\* lines 224-230: the next package's child is started, or (line 244) the
\* loop is over
remove_all_loop ==
    /\ pc = "remove_all_loop"
    /\ IF loc.todo = <<>>
       THEN /\ Log("All packages removed successfully.")
            /\ pc' = "menu"
            /\ UNCHANGED <<exitStatus, exc, calls, running, child>>
       ELSE /\ PopenStart("uninstall -y", Head(loc.todo), "remove_all_stdout")
            /\ UNCHANGED out
    /\ UNCHANGED <<netResult, env, venv_name, existed, steps, op, choice, loc,
                   parse>>

\* lines 233-237
remove_all_stdout ==
    /\ pc = "remove_all_stdout"
    /\ \/ /\ StdoutLine
          /\ TakeStdout
          /\ UNCHANGED pc
       \/ /\ StdoutEOF
          /\ pc' = "remove_all_stderr"
          /\ UNCHANGED child
    /\ UNCHANGED <<exitStatus, exc, netResult, env, venv_name, existed, hist,
                   op, choice, running, loc, parse>>

\* lines 238-239
remove_all_stderr ==
    /\ pc = "remove_all_stderr"
    /\ \/ /\ StderrChunk
          /\ TakeStderr
          /\ UNCHANGED pc
       \/ /\ StderrEOF
          /\ pc' = "remove_all_wait"
          /\ UNCHANGED child
    /\ UNCHANGED <<exitStatus, exc, netResult, env, venv_name, existed, hist,
                   op, choice, running, loc, parse>>

\* lines 241-242
remove_all_wait ==
    /\ pc = "remove_all_wait"
    /\ WaitReturns
    /\ pc' = "remove_all_loop"
    /\ loc' = [loc EXCEPT !.todo = Tail(@), !.pbar = @ + 1]
    /\ UNCHANGED <<exitStatus, exc, netResult, env, venv_name, existed, hist,
                   op, choice, running, child, parse>>

(***************************************************************************)
(* install_from_requirements: lines 114-180                                *)
(***************************************************************************)
NL(s) == Append(s, "\n")

\* contents of the manifest, as the lines `for line in file` yields
Manifests ==
    { <<>>,
      <<NL(<<"#", " ", "c">>), NL(<<>>)>>,
      <<NL(<<"a">>), NL(<<"b">>), <<"c">>>>,
      <<NL(<<"B", "=", "=", "1">>)>>,
      <<NL(<<"a", ">", "=", "1">>), NL(<<" ", "#", "x">>)>>,
      <<NL(<<"b", "~", "=", "1">>)>> }

\* lines 364-366
ask_requirements ==
    /\ pc = "ask_requirements"
    /\ \E raw \in RawPaths :
        /\ loc' = [loc EXCEPT !.requirements_file = Strip(raw)]
        /\ pc' = IF Strip(raw) # <<>> THEN "install_from_requirements" ELSE "menu"
    /\ UNCHANGED <<exitStatus, exc, netResult, env, venv_name, existed, hist,
                   op, choice, running, child, parse>>

\* lines 117-142, up to the start of `pip list`
install_from_requirements ==
    /\ pc = "install_from_requirements"
    /\ \E exists \in BOOLEAN, file \in Manifests :
        /\ ~exists => file = <<>>
        /\ loc' = [loc EXCEPT !.manifest = [exists |-> exists, file |-> file],
                              !.packages = ParseRequirements(file)]
        /\ IF ~exists
           THEN /\ out' = Append(out, Msg("ERROR: not found", loc.requirements_file))
                /\ pc' = "menu"
                /\ UNCHANGED <<exitStatus, exc, running, calls>>
           ELSE IF ParseRequirements(file) = <<>>
           THEN /\ Log("No valid packages found in requirements.txt.")
                /\ pc' = "menu"
                /\ UNCHANGED <<exitStatus, exc, running, calls>>
           ELSE /\ Log("Checking for installed packages before installation...")
                /\ RunStart("list", <<>>, "requirements_list_wait")
    /\ UNCHANGED <<netResult, env, venv_name, existed, steps, op, choice,
                   child, parse>>

AlreadyMsg(p) == Msg("is already installed (skipping)", p)

\* lines 149-150: one log line per package of already_installed
AlreadyMsgs(already_installed) ==
    [i \in 1..Len(already_installed) |-> AlreadyMsg(already_installed[i])]

\* lines 137-156
requirements_list_wait ==
    /\ pc = "requirements_list_wait"
    /\ running' = running - 1
    /\ \E stdout \in ListOutputs :
        LET installed_packages == InstalledSet(stdout)
            to_install == ToInstall(loc.packages, installed_packages)
            already_installed == AlreadyInstalled(loc.packages, installed_packages)
        IN
        /\ loc' = [loc EXCEPT !.lines = stdout, !.installed = installed_packages,
                              !.to_install = to_install]
        /\ IF to_install = <<>>
           THEN /\ out' = out \o AlreadyMsgs(already_installed)
                            \o <<Msg("All required packages are already installed.", <<>>)>>
                /\ pc' = "menu"
           ELSE /\ out' = out \o AlreadyMsgs(already_installed)
                            \o <<Msg("Installing packages from", loc.requirements_file)>>
                /\ pc' = "requirements_popen"
    /\ UNCHANGED <<exitStatus, exc, netResult, env, venv_name, existed, steps,
                   calls, op, choice, child, parse>>

\* line 160 installing the filtered list instead of the file
BatchArgument_Filtered(requirements_file, to_install) == Head(to_install)

\* the argument of line 160: the file, whatever to_install holds
BatchArgument(requirements_file, to_install) == requirements_file

\* lines 159-164
requirements_popen ==
    /\ pc = "requirements_popen"
    /\ PopenStart("install -r",
                  BatchArgument(loc.requirements_file, loc.to_install),
                  "requirements_stdout")
    /\ UNCHANGED <<netResult, env, venv_name, existed, steps, out, op, choice,
                   loc, parse>>

\* lines 167-173: only stdout is read
requirements_stdout ==
    /\ pc = "requirements_stdout"
    /\ \/ /\ StdoutLine
          /\ TakeStdout
          /\ loc' = IF Head(child.so) = "C"
                    THEN [loc EXCEPT !.current_package = "bound", !.pbar = @ + 1]
                    ELSE [loc EXCEPT !.pbar = @ + 1]
          /\ UNCHANGED pc
       \/ /\ StdoutEOF
          /\ pc' = "requirements_wait"
          /\ UNCHANGED <<child, loc>>
    /\ UNCHANGED <<exitStatus, exc, netResult, env, venv_name, existed, hist,
                   op, choice, running, parse>>

\* lines 175-180
requirements_wait ==
    /\ pc = "requirements_wait"
    /\ WaitReturns
    /\ \E rc \in {0, 1} :
        /\ loc' = [loc EXCEPT !.returncode = rc]
        /\ IF rc = 0
           THEN Log("Installation process complete.")
           ELSE Log("ERROR: Installation failed for some packages.")
    /\ pc' = "menu"
    /\ UNCHANGED <<exitStatus, exc, netResult, env, venv_name, existed, steps,
                   calls, op, choice, running, child, parse>>

(***************************************************************************)
(* Choices 5 and 6: lines 367-375                                          *)
(***************************************************************************)
\* lines 368-369, up to the start of `pip list`
list_packages ==
    /\ pc = "list_packages"
    /\ RunStart("list", <<>>, "list_packages_wait")
    /\ UNCHANGED <<netResult, env, venv_name, existed, steps, out, op, choice,
                   child, loc, parse>>

\* line 369: subprocess.run returns; the exit status is not looked at
list_packages_wait ==
    /\ pc = "list_packages_wait"
    /\ running' = running - 1
    /\ pc' = "menu"
    /\ UNCHANGED <<exitStatus, exc, netResult, env, venv_name, existed, hist,
                   op, choice, child, loc, parse>>

\* lines 371-374, up to the start of `pip freeze`
generate_requirements ==
    /\ pc = "generate_requirements"
    /\ Log("Generating requirements.txt...")
    /\ RunStart("freeze", <<>>, "generate_requirements_wait")
    /\ UNCHANGED <<netResult, env, venv_name, existed, steps, op, choice,
                   child, loc, parse>>

\* lines 374-375
generate_requirements_wait ==
    /\ pc = "generate_requirements_wait"
    /\ running' = running - 1
    /\ pc' = "menu"
    /\ Log("requirements.txt created successfully.")
    /\ UNCHANGED <<exitStatus, exc, netResult, env, venv_name, existed, steps,
                   calls, op, choice, child, loc, parse>>

(***************************************************************************)
(* The program                                                             *)
(***************************************************************************)
Next ==
    \/ check_internet
    \/ check_python
    \/ check_python_wait
    \/ download_python
    \/ install_python
    \/ install_python_wait
    \/ main_venv
    \/ create_virtual_env
    \/ create_virtual_env_wait
    \/ check_for_updates
    \/ check_for_updates_wait
    \/ ask_update
    \/ update_packages
    \/ update_stdout
    \/ update_stderr
    \/ update_wait
    \/ main_menu
    \/ ask_install
    \/ install_package
    \/ is_package_installed_wait
    \/ install_popen
    \/ install_stdout
    \/ install_wait
    \/ ask_remove
    \/ remove_package
    \/ remove_stdout
    \/ remove_stderr
    \/ remove_wait
    \/ ask_remove_all
    \/ remove_all_packages
    \/ remove_all_freeze_wait
    \/ remove_all_loop
    \/ remove_all_stdout
    \/ remove_all_stderr
    \/ remove_all_wait
    \/ ask_requirements
    \/ install_from_requirements
    \/ requirements_list_wait
    \/ requirements_popen
    \/ requirements_stdout
    \/ requirements_wait
    \/ list_packages
    \/ list_packages_wait
    \/ generate_requirements
    \/ generate_requirements_wait
    \/ ChildWrite
    \/ ChildClose
    \/ ChildExit

Spec == Init /\ [][Next]_vars

(***************************************************************************)
(* The manifest comprehension of lines 123-126, line by line               *)
(***************************************************************************)
Operators ==
    { <<"=", "=">>, <<">", "=">>, <<"<", "=">>, <<"<">>, <<">">>,
      <<"~", "=">>, <<"!", "=">> }

\* the lines of a manifest: blank lines, comments, names, and names with a
\* version constraint, with or without leading whitespace and line end
ManifestBodies ==
    {<<>>, <<"#", "c">>}
    \cup {<<"a">>, <<"B">>}
    \cup {n \o o \o <<"1">> : n \in {<<"a">>, <<"B">>}, o \in Operators}

ManifestLines ==
    {pre \o b \o post : pre \in {<<>>, <<" ">>}, b \in ManifestBodies,
                        post \in {<<>>, <<"\n">>}}

InitParse ==
    /\ pc = "parse"
    /\ pline \in ManifestLines
    /\ pres = <<>>
    /\ exitStatus = -1
    /\ exc = "none"
    /\ netResult = "unknown"
    /\ os_name = "posix"
    /\ fs = {}
    /\ venvValid = FALSE
    /\ installer = FALSE
    /\ venv_name = <<>>
    /\ existed = FALSE
    /\ steps = <<>>
    /\ op = "parse"
    /\ choice = <<>>
    /\ calls = <<>>
    /\ out = <<>>
    /\ running = 0
    /\ child = NoChild
    /\ loc = Loc0

\* lines 124-125 applied to one line of the file
parse_line ==
    /\ pc = "parse"
    /\ pc' = "parsed"
    /\ pres' = ParseLine(pline)
    /\ UNCHANGED <<exitStatus, exc, netResult, env, venv_name, existed, hist,
                   op, choice, running, child, loc, pline>>

NextParse == parse_line

ParseSpec == InitParse /\ [][NextParse]_vars

(***************************************************************************)
(* Properties                                                              *)
(***************************************************************************)
IsPrefix(a, b) == Len(a) <= Len(b) /\ SubSeq(b, 1, Len(a)) = a

CallsOf(sub) == SelectSeq(calls, LAMBDA c : c.sub = sub)

Logged(m) == \E i \in 1..Len(out) : out[i].m = m

StartupOrder == <<"check_internet", "runtime", "venv", "check_for_updates">>

\* C1: the process ends with a non-zero exit status only when the initial
\* connectivity check fails, and every other error path logs and returns to
\* the loop: once the startup has returned and the loop awaits choices, the
\* process runs on (exitStatus -1) or ends with status 0.
C1_NoNonZeroExitFromLoop == steps = StartupOrder => exitStatus <= 0

\* C2: the startup steps return at most once each, in the order
\* connectivity, runtime, environment, initial outdated check; the menu is
\* awaited (and anything after it runs) only when all four have returned;
\* and when the connectivity check fails no later step has returned, no
\* subprocess was started and the process has ended.
C2_MenuOnlyAfterStartup ==
    /\ IsPrefix(steps, StartupOrder)
    /\ (pc = "menu" \/ op # "startup") => steps = StartupOrder
    /\ netResult \notin {"ok", "unknown"} =>
          /\ IsPrefix(steps, <<"check_internet">>)
          /\ calls = <<>>
          /\ running = 0
          /\ pc \in {"exited", "crashed"}

\* C2's case: the menu is awaited for the first time
C2_Witness == pc = "menu" /\ op = "startup" /\ steps = StartupOrder

\* C3: when the environment step has returned, directory venv_name exists;
\* it started exactly one creation subprocess (for venv_name) if the
\* directory did not exist when it ran, and none if it did; in no case is
\* more than one creation subprocess started.
C3_EnvironmentCreatedOnce ==
    op = "startup" =>
        /\ Len(CallsOf("venv")) <= 1
        /\ existed => CallsOf("venv") = <<>>
        /\ Len(steps) >= 3 =>
              /\ venv_name \in fs
              /\ CallsOf("venv") =
                    IF existed THEN <<>> ELSE <<Cmd(SystemPython, "venv", venv_name)>>

\* C3's case: the directory was absent and the step has created it
C3_Witness ==
    /\ op = "startup"
    /\ Len(steps) = 3
    /\ ~existed
    /\ venv_name \in fs
    /\ Len(CallsOf("venv")) = 1

\* install_package has decided between skipping and installing
InstallDecided ==
    \/ pc \in {"install_stdout", "install_wait"}
    \/ pc = "menu" /\ loc.package_name # <<>>
    \/ exc = "UnboundLocalError"

\* the names of the list output, lower-cased: first tokens of the non-blank
\* lines after the two header lines
ListedNames(lines) ==
    {Lower(FirstToken(lines[i])) : i \in {j \in 3..Len(lines) : HasToken(lines[j])}}

\* C4: with P the requested name and S the names of the list output,
\* install_package starts no install subprocess and logs a skip when
\* lower(P) is in S, and starts exactly one install subprocess, for P, when
\* it is not.
C4_InstallSkipsInstalled ==
    op = "install" =>
        /\ Len(CallsOf("install")) <= 1
        /\ InstallDecided =>
              IF Lower(loc.package_name) \in ListedNames(loc.lines)
              THEN /\ CallsOf("install") = <<>>
                   /\ Msg("skipped, already installed", loc.package_name) \in Range(out)
              ELSE CallsOf("install") = <<PipCmd("install", loc.package_name)>>

\* C4's case: "Np" is requested while "np" is installed
C4_Witness ==
    /\ op = "install"
    /\ pc = "menu"
    /\ loc.package_name = <<"N", "p">>
    /\ <<"n", "p">> \in ListedNames(loc.lines)
    /\ Logged("skipped, already installed")
    /\ Len(calls) = 1

\* install_from_requirements has decided whether to start the batch install
RequirementsDecided ==
    \/ pc \in {"requirements_stdout", "requirements_wait"}
    \/ pc = "menu" /\ loc.requirements_file # <<>>

\* C5: with N the names parsed from the manifest and S the names of the
\* list output, install_from_requirements logs exactly the names of N that
\* are in S as already installed, in order; it starts exactly one batch
\* install, whose argument is the manifest file, when some name of N is not
\* in S; and it starts none and has returned when the file is missing, N is
\* empty or every name of N is in S.
C5_BatchInstallOfWholeFile ==
    op = "requirements" =>
        LET N == ParseRequirements(loc.manifest.file)
            S == ListedNames(loc.lines)
            skipped == SelectSeq(out, LAMBDA m : m.m = "is already installed (skipping)")
            inS == SelectSeq(N, LAMBDA n : Lower(n) \in S)
        IN
        /\ Len(CallsOf("install -r")) <= 1
        /\ CallsOf("install") = <<>>
        /\ RequirementsDecided =>
              /\ skipped = [i \in 1..Len(inS) |-> Msg("is already installed (skipping)", inS[i])]
              /\ IF \E n \in Range(N) : Lower(n) \notin S
                 THEN CallsOf("install -r") =
                         <<PipCmd("install -r", loc.requirements_file)>>
                 ELSE CallsOf("install -r") = <<>> /\ pc = "menu"
              /\ ~loc.manifest.exists => calls = <<>> /\ pc = "menu"

\* C5's case: the manifest holds a, b, c and only b is installed
C5_Witness ==
    /\ op = "requirements"
    /\ pc = "menu"
    /\ ParseRequirements(loc.manifest.file) = << <<"a">>, <<"b">>, <<"c">> >>
    /\ ListedNames(loc.lines) = {<<"b">>}
    /\ AlreadyMsg(<<"b">>) \in Range(out)
    /\ Len(CallsOf("install -r")) = 1

\* the name of a requirement: what precedes its version-comparison operator
RECURSIVE NameBeforeOperator(_)
NameBeforeOperator(s) ==
    IF s = <<>> \/ \E o \in Operators : IsPrefix(o, s) THEN <<>>
    ELSE <<Head(s)>> \o NameBeforeOperator(Tail(s))

\* C6: a blank line, or a line whose first non-blank character is the
\* comment marker, yields no entry; any other line yields exactly its
\* package name, for each of the operators ==, >=, <=, <, >, ~=, !=.
C6_ParseYieldsPackageName ==
    pc = "parsed" =>
        pres = IF Strip(pline) = <<>> \/ Head(Strip(pline)) = "#"
               THEN <<>>
               ELSE <<NameBeforeOperator(Strip(pline))>>

ValidChoices ==
    {<<"1">>, <<"2">>, <<"3">>, <<"4">>, <<"5">>, <<"6">>, <<"7">>, <<"8">>}

InvalidMsg == Msg("Invalid choice.", <<>>)

\* C7: a step taken while a choice is awaited, with a choice other than
\* "1".."8", prints exactly the invalid-choice message, starts no
\* subprocess, leaves the environment, the exit status and the running
\* subprocesses as they were and awaits a choice again; with choice "8" it
\* ends the loop (exit status 0) and starts no subprocess.
C7_InvalidChoiceChangesNothing ==
    [][pc = "menu" =>
          /\ choice' \notin ValidChoices =>
                /\ pc' = "menu"
                /\ out' = <<InvalidMsg>>
                /\ calls' = <<>>
                /\ UNCHANGED <<exitStatus, exc, env, venv_name, steps, running>>
          /\ choice' = <<"8">> =>
                /\ pc' = "exited"
                /\ exitStatus' = 0
                /\ calls' = <<>>
                /\ UNCHANGED <<env, venv_name, steps, running>>]_vars

\* C7's case: "9" was just rejected
C7_Witness ==
    /\ pc = "menu"
    /\ op = "invalid"
    /\ choice = <<"9">>
    /\ out = <<InvalidMsg>>
    /\ calls = <<>>

\* check_for_updates has parsed the outdated list
UpdatesParsed ==
    pc \in {"ask_update", "update_packages", "update_stdout", "update_stderr",
            "update_wait", "menu"}

UpgradeArgs ==
    [i \in 1..Len(CallsOf("install --upgrade")) |-> CallsOf("install --upgrade")[i].arg]

\* C8: with at most two lines of output check_for_updates reports all
\* packages up to date, asks nothing and starts no upgrade; otherwise the
\* outdated list is the first token of each line after the second, in
\* order; the upgrades started are a prefix of that list (all of it once
\* the operation has returned after a "y"), and none is started unless the
\* answer was "y".
C8_UpdatesSkipTwoHeaderLines ==
    (op \in {"startup", "updates"} /\ UpdatesParsed /\ Len(steps) >= 3) =>
        /\ Len(loc.lines) <= 2 =>
              /\ pc = "menu"
              /\ Logged("All packages are up to date.")
              /\ UpdatePrompt \notin Range(out)
              /\ UpgradeArgs = <<>>
        /\ Len(loc.lines) > 2 =>
              /\ loc.packages =
                    [i \in 1..(Len(loc.lines) - 2) |-> FirstToken(loc.lines[i + 2])]
              /\ ~Logged("All packages are up to date.")
        /\ IsPrefix(UpgradeArgs, loc.packages)
        /\ UpgradeArgs # <<>> => loc.answer = <<"y">>
        /\ (pc = "menu" /\ loc.answer = <<"y">>) => UpgradeArgs = loc.packages

\* C8's case: two outdated packages, upgraded in the reported order
C8_Witness ==
    /\ op = "updates"
    /\ pc = "menu"
    /\ Len(loc.lines) = 4
    /\ UpgradeArgs = << <<"c">>, <<"a">> >>

\* C9: at most one started subprocess has not terminated.
C9_AtMostOneSubprocess == running \in {0, 1}

\* C9's case: remove-all runs the child of its second package
C9_Witness ==
    /\ op = "remove_all"
    /\ pc = "remove_all_stdout"
    /\ Len(CallsOf("uninstall -y")) = 2
    /\ running = 1

\* C10: an operation chosen from the menu finishes: until the process has
\* ended, the parent can take a step or the child it waits for can, so that
\* no read of a pipe and no wait blocks forever.
C10_NoOperationBlocksForever ==
    (steps = StartupOrder /\ pc \notin {"exited", "crashed"}) => ENABLED Next
====
